---- MODULE Spec2Model ----
(***************************************************************************)
(* Lead lifecycle and assignment engine of the telecalling CRM.            *)
(*                                                                         *)
(* The state is the Lead collection (models/Lead.js), the User and the      *)
(* CallLog collection, the wall clock, the requests that have read and not *)
(* yet written, and the outcome of the last request.  A request handler is *)
(* one atomic action; its body is a pure operator from the stored          *)
(* document(s) and the request to the HTTP code and the document(s)        *)
(* written back.  Where the interleaving of two requests matters, the      *)
(* handler is cut in two actions at the await that separates its reads     *)
(* from its write.                                                         *)
(*                                                                         *)
(* Time is counted in half days, so that "start of today" differs from     *)
(* "now" in the second half of a day.                                      *)
(***************************************************************************)
EXTENDS Integers, Sequences, FiniteSets, TLC

VARIABLES leads, now, last, requests, users, callLogs, inflight

vars == <<leads, now, last, requests, users, callLogs, inflight>>

----------------------------------------------------------------------------
(* Bounds of the model *)

\* requests handled in one behaviour
MaxRequests == 1
\* last instant of the clock
MaxNow == 29
\* leads in the collection of the distribution specification
MaxDistLeads == 3
\* largest perEmployee cap a caller passes
MaxPer == 2

----------------------------------------------------------------------------
(* Values *)

\* an absent / undefined / null field or request parameter
Null == <<>>
Some(x) == <<x>>
IsSome(o) == o # Null
Val(o) == o[1]

\* no user reference (assignedTo unset)
NoUser == "none"

Statuses == {"New", "Interested", "Hot", "Follow-up", "Won", "Lost", "Dead"}
DeadLeadReasons == {"Wrong Number", "Switched Off", "Not Interested", "Other"}

\* half days in a day: Date.setHours(0,0,0,0) rounds down to a multiple of it
DayUnits == 2
StartOfDay(t) == t - (t % DayUnits)
\* 14 * 24 * 60 * 60 * 1000 ms
FourteenDays == 14 * DayUnits

\* the User collection: three managers, the employees reporting to each in
\* the order User.find({ manager }) returns them (nobody reports to m3)
Managers == {"m1", "m2", "m3"}
Employees == {"e1", "e2", "e3"}
Admin == "admin"
Reporting(m) == IF m = "m1" THEN <<"e1", "e2">> ELSE IF m = "m2" THEN <<"e3">> ELSE <<>>
AllUsers == Managers \cup Employees \cup {Admin}
\* User.find({ manager: m }): the employees reporting to m that still exist
TeamOf(m) == SelectSeq(Reporting(m), LAMBDA e : e \in users)
Range(s) == {s[i] : i \in DOMAIN s}
TeamIds(m) == Range(TeamOf(m))

\* a request date string: new Date(s) is either Invalid Date or an instant
InvalidDate == [valid |-> FALSE, t |-> 0]
DateAt(t) == [valid |-> TRUE, t |-> t]

\* the clock steps between requests: exactly 14 days, or 14 days and a half
TickSteps == {FourteenDays, FourteenDays + 1}

----------------------------------------------------------------------------
(* The Lead document *)

\* the phone of a document whose number plays no role
NoPhone == 0

NewLead(creator, assignee, created) ==
    [ phone |-> NoPhone, status |-> "New", notes |-> <<>>,
      assignedTo |-> assignee, createdBy |-> creator,
      followUpDate |-> Null, sellingPrice |-> Null, lossReason |-> Null,
      reassignmentDate |-> Null,
      deadLeadReason |-> Null, deadLeadDate |-> Null,
      lastCallAttempt |-> Null, callAttempts |-> 0,
      previousAssignments |-> <<>>, createdAt |-> created ]

\* an entry of previousAssignments
Assignment(employee, t, status) ==
    [employee |-> employee, assignedAt |-> t, status |-> status]

\* what a batch handler reports besides its code: the leads found due, the
\* leads reassigned, the assigned / skipped lists of a distribution, and the
\* per-entry results of a manual mapping
NoInfo ==
    [due |-> {}, reassigned |-> {}, assigned |-> <<>>, skipped |-> <<>>, results |-> <<>>]

\* the outcome of a handler: the HTTP code, the error text, and the Lead
\* collection after it (the collection as found when it returned before
\* any save)
Reply(code, error, store) ==
    [code |-> code, error |-> error, leads |-> store, info |-> NoInfo]

\* Array.prototype.includes on an array of ObjectId objects: it compares by
\* identity, and the ObjectId of one document is never the object held by
\* another document (nor a string of the request body)
IdArrayIncludes(ids, x) == FALSE

----------------------------------------------------------------------------
(* PUT /api/employee/update-lead *)

\* the fields of $set a bulk update carries
NoUpdates == [status |-> Null, assignedTo |-> Null, createdBy |-> Null]

\* req.body and req.params with nothing in them: every field a handler of
\* the model destructures, absent
EmptyBody ==
    [ note |-> Null, status |-> Null, followUpDate |-> Null,
      sellingPrice |-> Null, lossReason |-> Null, assignedTo |-> Null,
      deadLeadReason |-> Null, leadIds |-> {}, perEmployee |-> Null,
      employeeId |-> Null, userId |-> Null, assignments |-> <<>>,
      name |-> Null, phone |-> Null, region |-> Null,
      managerId |-> Null, clearAssignments |-> FALSE, updates |-> NoUpdates,
      callStatus |-> Null, simCardId |-> Null ]

\* a request body of update-lead
EmployeeRequest(note, status, followUpDate) ==
    [EmptyBody EXCEPT !.note = note, !.status = status, !.followUpDate = followUpDate]

\* a variant that saves the document before it looks at the date
SetEmployeeFollowUpSavingFirst(ls, id, doc, date, t) ==
    IF ~Val(date).valid
    THEN Reply(400, "Invalid follow-up date format", [ls EXCEPT ![id] = doc])
    ELSE IF Val(date).t < StartOfDay(t)
    THEN Reply(400, "Follow-up date cannot be in the past", [ls EXCEPT ![id] = doc])
    ELSE Reply(200, "", [ls EXCEPT ![id] = [doc EXCEPT !.followUpDate = Some(Val(date).t)]])

\* the checks of a supplied follow-up date, then the write of it
SetEmployeeFollowUp(ls, id, doc, date, t) ==
    IF ~Val(date).valid
    THEN Reply(400, "Invalid follow-up date format", ls)
    ELSE IF Val(date).t < StartOfDay(t)
    THEN Reply(400, "Follow-up date cannot be in the past", ls)
    ELSE Reply(200, "", [ls EXCEPT ![id] = [doc EXCEPT !.followUpDate = Some(Val(date).t)]])

\* the branch taken when the body carries a status
EmployeeStatusChange(ls, id, doc, userId, status, date, t) ==
    LET tracked == IF doc.assignedTo # NoUser /\ doc.assignedTo # userId
                   THEN [doc EXCEPT !.previousAssignments =
                            Append(@, Assignment(doc.assignedTo, t, doc.status))]
                   ELSE doc
        moved == [tracked EXCEPT !.status = status]
    IN  IF status = "Follow-up"
        THEN IF date = Null
             THEN Reply(400, "Follow-up date is required when status is set to Follow-up", ls)
             ELSE SetEmployeeFollowUp(ls, id, moved, date, t)
        ELSE IF status = "Hot"
        THEN Reply(200, "", [ls EXCEPT ![id] =
                 [moved EXCEPT !.followUpDate = Null,
                               !.reassignmentDate = Some(t + FourteenDays)]])
        ELSE Reply(200, "", [ls EXCEPT ![id] =
                 [moved EXCEPT !.followUpDate = Null, !.reassignmentDate = Null]])

\* a handler without the test that the lead is assigned to the caller
updateLeadNotesOfAnybody(ls, userId, id, req, t) ==
    IF id \notin DOMAIN ls
    THEN Reply(404, "Lead not found", ls)
    ELSE LET noted == IF IsSome(req.note)
                      THEN [ls[id] EXCEPT !.notes = Append(@, Val(req.note))]
                      ELSE ls[id]
         IN  IF IsSome(req.status)
             THEN EmployeeStatusChange(ls, id, noted, userId, Val(req.status),
                                       req.followUpDate, t)
             ELSE Reply(200, "", [ls EXCEPT ![id] = noted])

updateLeadNotes(ls, userId, id, req, t) ==
    IF id \notin DOMAIN ls
    THEN Reply(404, "Lead not found", ls)
    ELSE IF ls[id].assignedTo = NoUser \/ ls[id].assignedTo # userId
    THEN Reply(403, "Not allowed to update this lead", ls)
    ELSE LET noted == IF IsSome(req.note)
                      THEN [ls[id] EXCEPT !.notes = Append(@, Val(req.note))]
                      ELSE ls[id]
         IN  IF IsSome(req.status)
             THEN EmployeeStatusChange(ls, id, noted, userId, Val(req.status),
                                       req.followUpDate, t)
             ELSE IF IsSome(req.followUpDate)
             THEN IF noted.status = "Follow-up"
                  THEN SetEmployeeFollowUp(ls, id, noted, req.followUpDate, t)
                  ELSE Reply(400, "Can only set follow-up date when status is Follow-up", ls)
             ELSE Reply(200, "", [ls EXCEPT ![id] = noted])

----------------------------------------------------------------------------
(* PUT /api/manager/update-lead-status *)

ManagerRequest(status, assignedTo, followUpDate, sellingPrice, lossReason) ==
    [EmptyBody EXCEPT !.status = status, !.followUpDate = followUpDate,
                      !.sellingPrice = sellingPrice, !.lossReason = lossReason,
                      !.assignedTo = assignedTo]

\* JavaScript truthiness of an optional number: undefined and 0 are falsy
TruthyNumber(o) == IsSome(o) /\ Val(o) # 0

\* "Verify manager has access to this lead"
ManagerHasAccess(doc, managerId) ==
    IdArrayIncludes(TeamIds(managerId), doc.assignedTo) \/ doc.createdBy = managerId

\* "Handle status-specific logic", then lead.save(); new Date(followUpDate)
\* of an unparsable string is an Invalid Date, which save() refuses to cast
ManagerStatusLogic(ls, id, doc, req, t) ==
    LET status == Val(req.status) IN
    IF status = "Follow-up"
    THEN IF req.followUpDate = Null
         THEN Reply(400, "Follow-up date is required for Follow-up status", ls)
         ELSE IF ~Val(req.followUpDate).valid
         THEN Reply(500, "Failed to update lead status", ls)
         ELSE Reply(200, "", [ls EXCEPT ![id] =
                  [doc EXCEPT !.followUpDate = Some(Val(req.followUpDate).t),
                              !.reassignmentDate = Null]])
    ELSE IF status = "Won"
    THEN IF ~TruthyNumber(req.sellingPrice)
         THEN Reply(400, "Selling price is required for Won status", ls)
         ELSE Reply(200, "", [ls EXCEPT ![id] =
                  [doc EXCEPT !.sellingPrice = req.sellingPrice,
                              !.followUpDate = Null,
                              !.reassignmentDate = Null]])
    ELSE IF status = "Lost"
    THEN IF req.lossReason = Null
         THEN Reply(400, "Loss reason is required for Lost status", ls)
         ELSE Reply(200, "", [ls EXCEPT ![id] =
                  [doc EXCEPT !.lossReason = req.lossReason,
                              !.followUpDate = Null,
                              !.reassignmentDate = Some(t + FourteenDays)]])
    ELSE Reply(200, "", [ls EXCEPT ![id] =
             [doc EXCEPT !.followUpDate = Null, !.reassignmentDate = Null,
                         !.sellingPrice = Null, !.lossReason = Null]])

updateLeadStatus(ls, managerId, id, req, t) ==
    IF req.status = Null
    THEN Reply(400, "leadId and status are required", ls)
    ELSE IF id \notin DOMAIN ls
    THEN Reply(404, "Lead not found", ls)
    ELSE IF ~ManagerHasAccess(ls[id], managerId)
    THEN Reply(403, "Not authorized to update this lead", ls)
    ELSE LET doc == ls[id]
             tracked == IF doc.assignedTo # NoUser /\ Some(doc.assignedTo) # req.assignedTo
                        THEN [doc EXCEPT !.previousAssignments =
                                 Append(@, Assignment(doc.assignedTo, t, doc.status))]
                        ELSE doc
             moved == [tracked EXCEPT !.status = Val(req.status)]
         IN  IF IsSome(req.assignedTo)
             THEN IF ~IdArrayIncludes(TeamIds(managerId), Val(req.assignedTo))
                  THEN Reply(400, "Can only assign to employees under your management", ls)
                  ELSE ManagerStatusLogic(ls, id,
                           [moved EXCEPT !.assignedTo = Val(req.assignedTo)], req, t)
             ELSE ManagerStatusLogic(ls, id, moved, req, t)

----------------------------------------------------------------------------
(* PUT /leads/:id/reactivate, of the manager and of the admin router *)

\* a reset that forgets the call counter
ReactivatedKeepingAttempts(doc) ==
    [doc EXCEPT !.status = "New", !.deadLeadReason = Null, !.deadLeadDate = Null,
                !.lastCallAttempt = Null]

Reactivated(doc) ==
    [doc EXCEPT !.status = "New", !.deadLeadReason = Null, !.deadLeadDate = Null,
                !.callAttempts = 0, !.lastCallAttempt = Null]

managerReactivate(ls, managerId, id) ==
    IF id \notin DOMAIN ls
    THEN Reply(404, "Lead not found", ls)
    ELSE IF ls[id].status # "Dead"
    THEN Reply(400, "Lead is not dead", ls)
    ELSE IF ls[id].createdBy # managerId
    THEN Reply(403, "Not authorized to reactivate this lead", ls)
    ELSE Reply(200, "", [ls EXCEPT ![id] = Reactivated(ls[id])])

\* a handler without the test of the status
adminReactivateAnyStatus(ls, id) ==
    IF id \notin DOMAIN ls
    THEN Reply(404, "Lead not found", ls)
    ELSE Reply(200, "", [ls EXCEPT ![id] = Reactivated(ls[id])])

adminReactivate(ls, id) ==
    IF id \notin DOMAIN ls
    THEN Reply(404, "Lead not found", ls)
    ELSE IF ls[id].status # "Dead"
    THEN Reply(400, "Lead is not dead", ls)
    ELSE Reply(200, "", [ls EXCEPT ![id] = Reactivated(ls[id])])

----------------------------------------------------------------------------
(* POST /api/manager/reassign-leads *)

\* the ids of a set of leads in the order Lead.find returns them
RECURSIVE InFindOrder(_)
InFindOrder(ids) ==
    IF ids = {} THEN <<>>
    ELSE LET first == CHOOSE i \in ids : \A j \in ids : i <= j
         IN  <<first>> \o InFindOrder(ids \ {first})

\* a query that looks at reassignmentDate and not at the status
DueByDateOnly(ls, managerId, t) ==
    { id \in DOMAIN ls :
        /\ IsSome(ls[id].reassignmentDate)
        /\ Val(ls[id].reassignmentDate) <= t
        /\ \/ ls[id].createdBy = managerId
           \/ ls[id].assignedTo \in TeamIds(managerId) }

\* the query "Get leads that need reassignment"
DueForReassignment(ls, managerId, t) ==
    { id \in DOMAIN ls :
        /\ \/ ls[id].status = "Hot" /\ IsSome(ls[id].reassignmentDate)
                                    /\ Val(ls[id].reassignmentDate) <= t
           \/ ls[id].status = "Lost" /\ IsSome(ls[id].reassignmentDate)
                                     /\ Val(ls[id].reassignmentDate) <= t
        /\ \/ ls[id].createdBy = managerId
           \/ ls[id].assignedTo \in TeamIds(managerId) }

\* employees.filter(e => e._id.toString() !== currentEmployeeId.toString())
AvailableEmployees(team, current) == SelectSeq(team, LAMBDA e : e # current)

\* an update that leaves reassignmentDate in place
ReassignedKeepingDate(doc, employee, t) ==
    [doc EXCEPT !.previousAssignments =
                    Append(@, Assignment(doc.assignedTo, t, doc.status)),
                !.assignedTo = employee]

\* an update that sets reassignmentDate to the instant of the reassignment
ReassignedAndDueAgain(doc, employee, t) ==
    [doc EXCEPT !.previousAssignments =
                    Append(@, Assignment(doc.assignedTo, t, doc.status)),
                !.assignedTo = employee,
                !.reassignmentDate = Some(t)]

\* "Track previous assignment", "Update assignment"
ReassignedTo(doc, employee, t) ==
    [doc EXCEPT !.previousAssignments =
                    Append(@, Assignment(doc.assignedTo, t, doc.status)),
                !.assignedTo = employee,
                !.reassignmentDate = Null]

\* the loop over leadsToReassign; random[id] is the value of
\* Math.floor(Math.random() * availableEmployees.length), counted from 1.
\* A lead without assignee makes currentEmployeeId.toString() throw: the
\* catch answers 500 and the leads saved before stay saved.
RECURSIVE ReassignLoop(_, _, _, _, _, _, _)
ReassignLoop(ls, team, todo, random, t, due, reassigned) ==
    IF todo = <<>>
    THEN [ code |-> 200, error |-> "", leads |-> ls,
           info |-> [NoInfo EXCEPT !.due = due, !.reassigned = reassigned] ]
    ELSE LET id == Head(todo)
             doc == ls[id]
             available == AvailableEmployees(team, doc.assignedTo)
         IN  IF doc.assignedTo = NoUser
             THEN [ code |-> 500, error |-> "Failed to reassign leads", leads |-> ls,
                    info |-> [NoInfo EXCEPT !.due = due, !.reassigned = reassigned] ]
             ELSE IF Len(available) > 0
             THEN ReassignLoop(
                      [ls EXCEPT ![id] = ReassignedTo(doc, available[random[id]], t)],
                      team, Tail(todo), random, t, due, reassigned \cup {id})
             ELSE ReassignLoop(ls, team, Tail(todo), random, t, due, reassigned)

reassignLeads(ls, managerId, random, t) ==
    LET team == TeamOf(managerId)
        due == DueForReassignment(ls, managerId, t)
    IN  IF Len(team) = 0
        THEN Reply(400, "No employees found under your management", ls)
        ELSE IF due = {}
        THEN Reply(200, "No leads need reassignment", ls)
        ELSE ReassignLoop(ls, team, InFindOrder(due), random, t, due, {})

\* the draws of Math.random() the loop can make on this collection
RandomDraws(ls, managerId, t) ==
    { random \in [DOMAIN ls -> {1} \cup (1..Len(TeamOf(managerId)))] :
        \A id \in DOMAIN ls :
            LET n == Len(AvailableEmployees(TeamOf(managerId), ls[id].assignedTo))
            IN  IF id \in DueForReassignment(ls, managerId, t) /\ n > 0
                THEN random[id] <= n
                ELSE random[id] = 1 }

----------------------------------------------------------------------------
(* POST /leads/assign/auto of the manager router *)

\* the candidate leads: the leads named by a non-empty leadIds array,
\* else "all accessible unassigned leads"
CandidateLeads(ls, managerId, leadIds) ==
    IF leadIds # {}
    THEN {id \in DOMAIN ls : id \in leadIds}
    ELSE {id \in DOMAIN ls : \/ ls[id].createdBy = managerId
                             \/ ls[id].assignedTo \in TeamIds(managerId)
                             \/ ls[id].assignedTo = NoUser}

isAuthorized(doc, managerId) ==
    \/ doc.createdBy = managerId
    \/ doc.assignedTo = NoUser
    \/ doc.assignedTo \in TeamIds(managerId)

\* a comparator that looks at createdAt alone
SortsByCreatedAtOnly(a, b) == a.createdAt < b.createdAt

\* the comparator of the sort: a sorts before b
SortsBefore(a, b) ==
    LET aUn == IF a.assignedTo # NoUser THEN 1 ELSE 0
        bUn == IF b.assignedTo # NoUser THEN 1 ELSE 0
    IN  IF aUn # bUn THEN aUn < bUn ELSE a.createdAt < b.createdAt

\* Array.prototype.sort is stable: an element goes behind the elements that
\* do not sort after it
RECURSIVE InsertSorted(_, _, _)
InsertSorted(ls, sorted, id) ==
    IF sorted = <<>> THEN <<id>>
    ELSE IF SortsBefore(ls[id], ls[Head(sorted)])
    THEN <<id>> \o sorted
    ELSE <<Head(sorted)>> \o InsertSorted(ls, Tail(sorted), id)

RECURSIVE StableSort(_, _)
StableSort(ls, ids) ==
    IF ids = <<>> THEN <<>>
    ELSE InsertSorted(ls, StableSort(ls, SubSeq(ids, 1, Len(ids) - 1)), ids[Len(ids)])

AllowedLeads(ls, managerId, leadIds) ==
    StableSort(ls, SelectSeq(InFindOrder(CandidateLeads(ls, managerId, leadIds)),
                             LAMBDA id : isAuthorized(ls[id], managerId)))

Distribution(ls, assigned, skipped) ==
    [ code |-> 200, error |-> "", leads |-> ls,
      info |-> [NoInfo EXCEPT !.assigned = assigned, !.skipped = skipped] ]

\* a cap test that lets one lead too many through
AtOrUnderCap(count, per) == count <= per

\* the cap test of the while loop
UnderCap(count, per) == count < per

\* "Assign up to perEmployee leads per team member": e is the position of
\* emp in team, idx the next position of allowedLeads (both from 1)
RECURSIVE CappedLoop(_, _, _, _, _, _, _, _, _)
CappedLoop(ls, allowed, team, per, e, idx, count, assigned, skipped) ==
    IF e > Len(team)
    THEN Distribution(ls, assigned, skipped)
    ELSE IF UnderCap(count, per) /\ idx <= Len(allowed)
    THEN LET id == allowed[idx]
         IN  IF ls[id].assignedTo # NoUser /\ ls[id].assignedTo = team[e]
             THEN CappedLoop(ls, allowed, team, per, e, idx + 1, count,
                             assigned, Append(skipped, id))
             ELSE CappedLoop([ls EXCEPT ![id].assignedTo = team[e]], allowed, team,
                             per, e, idx + 1, count + 1,
                             Append(assigned, [leadId |-> id, employeeId |-> team[e]]),
                             skipped)
    ELSE IF idx > Len(allowed)
    THEN Distribution(ls, assigned, skipped)
    ELSE CappedLoop(ls, allowed, team, per, e + 1, idx, 0, assigned, skipped)

\* a target that never rotates
FirstOfTeam(team, i) == team[1]

\* team[i % team.length] for i counted from 1
RoundRobinTarget(team, i) == team[((i - 1) % Len(team)) + 1]

\* "Round-robin assignment across team without cap"
RECURSIVE RoundRobinLoop(_, _, _, _, _, _)
RoundRobinLoop(ls, allowed, team, i, assigned, skipped) ==
    IF i > Len(allowed)
    THEN Distribution(ls, assigned, skipped)
    ELSE LET id == allowed[i]
             employee == RoundRobinTarget(team, i)
         IN  IF ls[id].assignedTo # NoUser /\ ls[id].assignedTo = employee
             THEN RoundRobinLoop(ls, allowed, team, i + 1, assigned, Append(skipped, id))
             ELSE RoundRobinLoop([ls EXCEPT ![id].assignedTo = employee], allowed, team,
                                 i + 1,
                                 Append(assigned, [leadId |-> id, employeeId |-> employee]),
                                 skipped)

\* a request body of assign/auto: leadIds (empty when absent) and perEmployee
AutoRequest(leadIds, perEmployee) ==
    [EmptyBody EXCEPT !.leadIds = leadIds, !.perEmployee = perEmployee]

\* perEmployee is an integer of the body, or absent (then per = 0)
autoDistribute(ls, managerId, leadIds, perEmployee) ==
    LET team == TeamOf(managerId)
        allowed == AllowedLeads(ls, managerId, leadIds)
        per == IF IsSome(perEmployee) THEN Val(perEmployee) ELSE 0
    IN  IF Len(team) = 0
        THEN Reply(400, "No team members under your management", ls)
        ELSE IF Len(allowed) = 0
        THEN Distribution(ls, <<>>, <<>>)
        ELSE IF per > 0
        THEN CappedLoop(ls, allowed, team, per, 1, 1, 0, <<>>, <<>>)
        ELSE RoundRobinLoop(ls, allowed, team, 1, <<>>, <<>>)

----------------------------------------------------------------------------
(* The requests the model sends *)

NoRequest == ManagerRequest(Null, Null, Null, Null, Null)

\* a body that also carries deadLeadReason, a field neither status handler
\* reads from req.body
WithDeadReason(req, reason) == [req EXCEPT !.deadLeadReason = Some(reason)]

\* follow-up dates a client sends at instant t: none, an unparsable string,
\* yesterday, and today at midnight
DateInputs(t) ==
    {Null, Some(InvalidDate), Some(DateAt(StartOfDay(t) - 1)), Some(DateAt(StartOfDay(t)))}

EmployeeRequests(t) ==
    {EmployeeRequest(Null, Some("Follow-up"), d) : d \in DateInputs(t)}
    \cup {EmployeeRequest(Null, Null, d) : d \in DateInputs(t)}
    \cup {EmployeeRequest(Null, Some(st), Null) : st \in Statuses \ {"Follow-up"}}
    \cup {EmployeeRequest(Some("note"), st, Null) : st \in {Null, Some("Interested")}}
    \cup {WithDeadReason(EmployeeRequest(Null, Some("Dead"), Null), "Other")}

ManagerRequests(t) ==
    {ManagerRequest(Some("Follow-up"), Null, d, Null, Null) : d \in DateInputs(t)}
    \cup {ManagerRequest(Some("Won"), Null, Null, p, Null) : p \in {Null, Some(0), Some(5)}}
    \cup {ManagerRequest(Some("Lost"), Null, Null, Null, r) : r \in {Null, Some("price")}}
    \cup {ManagerRequest(Some(st), Null, Null, Null, Null) :
              st \in {"New", "Interested", "Hot", "Dead"}}
    \cup {ManagerRequest(Some("Hot"), Some(e), Null, Null, Null) : e \in {"e1", "e3"}}
    \cup {NoRequest}
    \cup {WithDeadReason(ManagerRequest(Some("Dead"), Null, Null, Null, Null), "Other")}

\* bodies of assign/auto: no leadIds, all leads, or all leads but one, with
\* every cap up to MaxPer; a manager without team sends one body
AutoRequests(actor) ==
    IF TeamOf(actor) = <<>>
    THEN {AutoRequest({}, Null)}
    ELSE {AutoRequest(ids, per) :
            ids \in {S \in SUBSET DOMAIN leads :
                        S = {} \/ Cardinality(S) >= Cardinality(DOMAIN leads) - 1},
            per \in {Null} \cup {Some(n) : n \in 0..MaxPer}}

\* a lead id of the collection, or an id no lead has
LeadRefs == DOMAIN leads \cup {0}

Outcome(op, actor, id, req, reply) ==
    [ op |-> op, actor |-> actor, lead |-> id,
      req |-> IF reply.code \in {401, 403, 404} THEN NoRequest ELSE req,
      code |-> reply.code, error |-> reply.error, info |-> reply.info ]

\* the behaviour has room for one more request
Open == requests < MaxRequests

Handled(op, actor, id, req, reply) ==
    /\ requests' = requests + 1
    /\ leads' = reply.leads
    /\ last' = Outcome(op, actor, id, req, reply)
    /\ UNCHANGED <<now, users, callLogs, inflight>>

----------------------------------------------------------------------------
(* POST /leads/assign of the manager router *)

\* a request body of a direct assignment
AssignRequest(employeeId, leadIds) ==
    [NoRequest EXCEPT !.employeeId = Some(employeeId), !.leadIds = leadIds]

\* Lead.updateMany({ _id: { $in: leadIds } }, { $set: { assignedTo } })
AssignMany(ls, leadIds, user) ==
    [id \in DOMAIN ls |->
        IF id \in leadIds THEN [ls[id] EXCEPT !.assignedTo = user] ELSE ls[id]]

\* a handler that takes any employee
assignLeadsToAnybody(ls, managerId, employeeId, leadIds) ==
    Reply(200, "", AssignMany(ls, leadIds, employeeId))

assignLeads(ls, managerId, employeeId, leadIds) ==
    IF employeeId \notin TeamIds(managerId)
    THEN Reply(403, "Employee not found or not under your management", ls)
    ELSE Reply(200, "", AssignMany(ls, leadIds, employeeId))

----------------------------------------------------------------------------
(* POST /leads/assign/manual-map of the manager router *)

\* an entry { employeeId, leadIds } of the assignments array
MapEntry(employeeId, leadIds) == [employeeId |-> employeeId, leadIds |-> leadIds]

MapRequest(assignments) == [NoRequest EXCEPT !.assignments = assignments]

\* an entry of results: an error, or the count assigned, with the count
\* skipped when the entry named leads
MapResult(employeeId, error, assigned, skipped) ==
    [employeeId |-> employeeId, error |-> error, assigned |-> assigned, skipped |-> skipped]

\* a membership test that lets every employee through
OnAnyTeam(managerId, employeeId) == TRUE

\* teamIds.has(String(a.employeeId))
OnTeam(managerId, employeeId) == employeeId \in TeamIds(managerId)

isAuth(doc, managerId) ==
    \/ doc.createdBy = managerId
    \/ doc.assignedTo = NoUser
    \/ doc.assignedTo \in TeamIds(managerId)

\* the loop over the leads of one entry: the collection and the two counters
RECURSIVE MapEntryLoop(_, _, _, _, _, _)
MapEntryLoop(ls, managerId, employeeId, todo, assigned, skipped) ==
    IF todo = <<>>
    THEN [leads |-> ls, assigned |-> assigned, skipped |-> skipped]
    ELSE LET id == Head(todo)
         IN  IF ~isAuth(ls[id], managerId)
             THEN MapEntryLoop(ls, managerId, employeeId, Tail(todo), assigned, skipped + 1)
             ELSE MapEntryLoop([ls EXCEPT ![id].assignedTo = employeeId], managerId,
                               employeeId, Tail(todo), assigned + 1, skipped)

\* the loop over assignments
RECURSIVE ManualMapLoop(_, _, _, _)
ManualMapLoop(ls, managerId, todo, results) ==
    IF todo = <<>>
    THEN [ code |-> 200, error |-> "", leads |-> ls,
           info |-> [NoInfo EXCEPT !.results = results] ]
    ELSE LET a == Head(todo)
             found == InFindOrder(a.leadIds \cap DOMAIN ls)
             done == MapEntryLoop(ls, managerId, a.employeeId, found, 0, 0)
         IN  IF ~OnTeam(managerId, a.employeeId)
             THEN ManualMapLoop(ls, managerId, Tail(todo),
                      Append(results, MapResult(a.employeeId,
                                                Some("Not under your management"), Null, Null)))
             ELSE IF a.leadIds = {}
             THEN ManualMapLoop(ls, managerId, Tail(todo),
                      Append(results, MapResult(a.employeeId, Null, Some(0), Null)))
             ELSE ManualMapLoop(done.leads, managerId, Tail(todo),
                      Append(results, MapResult(a.employeeId, Null,
                                                Some(done.assigned), Some(done.skipped))))

manualMap(ls, managerId, assignments) ==
    IF assignments = <<>>
    THEN Reply(400, "assignments array is required", ls)
    ELSE ManualMapLoop(ls, managerId, assignments, <<>>)

----------------------------------------------------------------------------
(* POST /api/leads/assign of the leads router, which is mounted without the
   auth and roles middleware *)

UserAssignRequest(userId, leadIds) ==
    [NoRequest EXCEPT !.userId = userId, !.leadIds = leadIds]

leadsAssign(ls, userId, leadIds) ==
    IF userId = Null
    THEN Reply(400, "Invalid input", ls)
    ELSE Reply(200, "", AssignMany(ls, leadIds, Val(userId)))

----------------------------------------------------------------------------
(* PUT /leads/:id of the manager router *)

\* a request body of PUT /leads/:id
PutRequest(status, assignedTo, sellingPrice) ==
    ManagerRequest(status, assignedTo, Null, sellingPrice, Null)

\* "Update lead fields": every field of the body that is truthy
PutFields(doc, req) ==
    [doc EXCEPT
        !.status = IF IsSome(req.status) THEN Val(req.status) ELSE @,
        !.assignedTo = IF IsSome(req.assignedTo) THEN Val(req.assignedTo) ELSE @,
        !.followUpDate = IF IsSome(req.followUpDate) THEN Some(Val(req.followUpDate).t) ELSE @,
        !.sellingPrice = IF TruthyNumber(req.sellingPrice) THEN req.sellingPrice ELSE @,
        !.lossReason = IF IsSome(req.lossReason) THEN req.lossReason ELSE @,
        !.notes = IF IsSome(req.note) THEN <<Val(req.note)>> ELSE @]

putLead(ls, managerId, id, req) ==
    IF id \notin DOMAIN ls
    THEN Reply(404, "Lead not found", ls)
    ELSE IF ~ManagerHasAccess(ls[id], managerId)
    THEN Reply(403, "Not authorized to update this lead", ls)
    ELSE IF IsSome(req.followUpDate) /\ ~Val(req.followUpDate).valid
    THEN Reply(500, "Server error", ls)
    ELSE Reply(200, "", [ls EXCEPT ![id] = PutFields(ls[id], req)])

----------------------------------------------------------------------------
(* The auth and roles middleware in front of a router *)

\* a caller that sends no token
Anonymous == "anonymous"

\* everybody who can send a request
Principals == Managers \cup Employees \cup {Admin, Anonymous}

\* req.user.role
RoleOf(user) ==
    IF user \in Managers THEN "manager"
    ELSE IF user \in Employees THEN "employee"
    ELSE "admin"

\* router.use(auth); router.use(roles(allowed)): the reply of the handler
\* when both call next(), else their own reply
Gated(allowed, caller, ls, reply) ==
    IF caller = Anonymous
    THEN Reply(401, "No token provided", ls)
    ELSE IF RoleOf(caller) \notin allowed
    THEN Reply(403, "Forbidden", ls)
    ELSE reply

\* bodies of a direct assignment: an employee of m1's or of m2's team and
\* any set of leads
AssignRequests ==
    {AssignRequest(e, ids) : e \in {"e1", "e3"}, ids \in SUBSET DOMAIN leads}

\* bodies of manual-map: no entry, one entry or two entries, each for an
\* employee of m1's or of m2's team with no lead, one lead or all leads
MapEntries ==
    {MapEntry(e, ids) : e \in {"e1", "e3"}, ids \in {{}, {1}, DOMAIN leads}}

MapRequests ==
    {MapRequest(<<>>)}
    \cup {MapRequest(<<a>>) : a \in MapEntries}
    \cup {MapRequest(<<a, b>>) : a \in MapEntries, b \in MapEntries}

\* bodies of /api/leads/assign: no userId, or any user, and one lead or all
UserAssignRequests ==
    {UserAssignRequest(u, ids) :
        u \in {Null, Some("e1"), Some("e3"), Some("m2")}, ids \in {{1}, DOMAIN leads}}

\* bodies of PUT /leads/:id: a status, an assignee, a price, or none
PutRequests ==
    {PutRequest(st, Null, Null) : st \in {Null, Some("Interested"), Some("Lost")}}
    \cup {PutRequest(Null, Some(e), Null) : e \in {"e1", "e3"}}
    \cup {PutRequest(Some("Won"), Null, Some(5))}
    \cup {ManagerRequest(Some("Follow-up"), Null, Some(InvalidDate), Null, Null)}

----------------------------------------------------------------------------
(* Actions *)

EmployeeUpdateLead ==
    /\ Open
    /\ \E e \in Employees, id \in LeadRefs, req \in EmployeeRequests(now) :
          Handled("update-lead", e, id, req, updateLeadNotes(leads, e, id, req, now))

ManagerUpdateLeadStatus ==
    /\ Open
    /\ \E m \in Managers, id \in LeadRefs, req \in ManagerRequests(now) :
          Handled("update-lead-status", m, id, req,
                  updateLeadStatus(leads, m, id, req, now))

ManagerReactivate ==
    /\ Open
    /\ \E m \in Managers, id \in LeadRefs :
          Handled("manager-reactivate", m, id, NoRequest, managerReactivate(leads, m, id))

AdminReactivate ==
    /\ Open
    /\ \E id \in LeadRefs :
          Handled("admin-reactivate", Admin, id, NoRequest, adminReactivate(leads, id))

ReassignLeads ==
    /\ Open
    /\ \E m \in Managers \cup {Admin} :
          \E random \in RandomDraws(leads, m, now) :
              Handled("reassign-leads", m, 0, NoRequest,
                      reassignLeads(leads, m, random, now))

AutoDistribute ==
    /\ Open
    /\ \E m \in Managers : \E req \in AutoRequests(m) :
          Handled("assign-auto", m, 0, req,
                  autoDistribute(leads, m, req.leadIds, req.perEmployee))

DirectAssign ==
    /\ Open
    /\ \E caller \in Principals : \E req \in AssignRequests :
          Handled("assign", caller, 0, req,
                  Gated({"manager"}, caller, leads,
                        assignLeads(leads, caller, Val(req.employeeId), req.leadIds)))

ManualMap ==
    /\ Open
    /\ \E caller \in Principals : \E req \in MapRequests :
          Handled("manual-map", caller, 0, req,
                  Gated({"manager"}, caller, leads,
                        manualMap(leads, caller, req.assignments)))

LeadsAssign ==
    /\ Open
    /\ \E caller \in Employees \cup {Anonymous} : \E req \in UserAssignRequests :
          Handled("leads-assign", caller, 0, req,
                  leadsAssign(leads, req.userId, req.leadIds))

ManagerPutLead ==
    /\ Open
    /\ \E caller \in Principals, id \in LeadRefs : \E req \in PutRequests :
          Handled("put-lead", caller, id, req,
                  Gated({"manager"}, caller, leads, putLead(leads, caller, id, req)))

\* time passes between two requests
Tick ==
    \E d \in TickSteps :
        /\ now + d <= MaxNow
        /\ now' = now + d
        /\ last' = [ op |-> "tick", actor |-> NoUser, lead |-> 0, req |-> NoRequest,
                     code |-> 0, error |-> "", info |-> NoInfo ]
        /\ UNCHANGED <<leads, requests, users, callLogs, inflight>>

----------------------------------------------------------------------------
(* The lifecycle specification *)

\* the ids of the Lead collection of the lifecycle specification
LeadIds == {1, 2}

\* Documents as found in the store in the middle of their life.  t0 is the
\* instant of the request that brought them there.
StoredHot(creator, assignee, t0) ==
    [NewLead(creator, assignee, 0) EXCEPT
        !.status = "Hot", !.reassignmentDate = Some(t0 + FourteenDays)]

StoredLost(creator, assignee, t0) ==
    [NewLead(creator, assignee, 0) EXCEPT
        !.status = "Lost", !.lossReason = Some("price"),
        !.reassignmentDate = Some(t0 + FourteenDays)]

StoredWon(creator, assignee) ==
    [NewLead(creator, assignee, 0) EXCEPT !.status = "Won", !.sellingPrice = Some(5)]

\* a lead that was Hot and was then declared Dead after two call attempts:
\* the reassignmentDate of its Hot days is still there
StoredDead(creator, assignee, t0) ==
    [NewLead(creator, assignee, 0) EXCEPT
        !.status = "Dead", !.deadLeadReason = Some("Switched Off"),
        !.deadLeadDate = Some(t0), !.callAttempts = 2, !.lastCallAttempt = Some(t0),
        !.reassignmentDate = Some(t0)]

InitialLeads ==
    { NewLead("m1", NoUser, 0),
      StoredHot("m1", "e1", 0),
      StoredHot("m1", "e3", 0),
      StoredLost("m1", NoUser, 0),
      StoredLost("m2", NoUser, 0),
      StoredWon("m1", "e2"),
      StoredDead("m2", "e3", 0) }

NoOutcome ==
    [ op |-> "init", actor |-> NoUser, lead |-> 0, req |-> NoRequest,
      code |-> 0, error |-> "", info |-> NoInfo ]

\* every lead of a collection has its own phone number
Numbered(ls) == [id \in DOMAIN ls |-> [ls[id] EXCEPT !.phone = id]]

\* every user exists, no call is logged, no request is on its way
Quiet ==
    /\ users = AllUsers
    /\ callLogs = {}
    /\ inflight = {}

Init ==
    /\ \E ls \in [LeadIds -> InitialLeads] : leads = Numbered(ls)
    /\ now = 0
    /\ requests = 0
    /\ last = NoOutcome
    /\ Quiet

Next ==
    \/ EmployeeUpdateLead
    \/ ManagerUpdateLeadStatus
    \/ ManagerReactivate
    \/ AdminReactivate
    \/ ReassignLeads
    \/ Tick

Spec == Init /\ [][Next]_vars

----------------------------------------------------------------------------
(* The distribution specification: a collection of new leads of both
   managers, unassigned or held by an employee, and one distribution call *)

DistLeads ==
    {NewLead("m1", a, at) : a \in {NoUser, "e1", "e3"}, at \in {0, 1}}
    \cup {NewLead("m2", "e3", 0), NewLead("m2", "e1", 0)}

InitDist ==
    /\ \E ls \in [1..MaxDistLeads -> DistLeads] : leads = Numbered(ls)
    /\ now = 0
    /\ requests = MaxRequests - 1
    /\ last = NoOutcome
    /\ Quiet

NextDist ==
    \/ AutoDistribute

SpecDist == InitDist /\ [][NextDist]_vars

----------------------------------------------------------------------------
(* The assignment specification: leads of two managers, unassigned or held
   in or outside the creator's team, and one assignment call by anybody *)

AssignDocs ==
    { NewLead("m1", NoUser, 0),
      NewLead("m2", NoUser, 0),
      NewLead("m2", "e3", 0),
      StoredHot("m1", "e1", 0),
      StoredHot("m1", "e3", 0) }

InitAssign ==
    /\ \E ls \in [LeadIds -> AssignDocs] : leads = Numbered(ls)
    /\ now = 0
    /\ requests = MaxRequests - 1
    /\ last = NoOutcome
    /\ Quiet

NextAssign ==
    \/ ManagerUpdateLeadStatus
    \/ DirectAssign
    \/ AutoDistribute
    \/ ManualMap
    \/ LeadsAssign
    \/ ManagerPutLead

SpecAssign == InitAssign /\ [][NextAssign]_vars

----------------------------------------------------------------------------
(* The repetition specification: the collection of the lifecycle
   specification, and two calls of reassign-leads *)

InitRepeat ==
    /\ \E ls \in [LeadIds -> InitialLeads] : leads = Numbered(ls)
    /\ now = 0
    \* room for two requests
    /\ requests = MaxRequests - 2
    /\ last = NoOutcome
    /\ Quiet

NextRepeat ==
    \/ ReassignLeads
    \/ Tick

SpecRepeat == InitRepeat /\ [][NextRepeat]_vars

----------------------------------------------------------------------------
(* Two status updates of one lead on their way at once.  Each handler awaits
   Lead.findById, works on the document it got, and awaits lead.save() *)

\* a request that has read and not yet written: the handler, the caller,
\* the lead, the body, the document findById returned and the instant
Pending(op, actor, id, req, doc, t) ==
    [op |-> op, actor |-> actor, lead |-> id, req |-> req, read |-> doc, at |-> t]

\* the document the handler of a pending request holds when it calls save():
\* the document it read with its own assignments applied
HeldBy(p) ==
    LET ls == [leads EXCEPT ![p.lead] = p.read]
    IN  IF p.op = "update-lead"
        THEN updateLeadNotes(ls, p.actor, p.lead, p.req, p.at).leads[p.lead]
        ELSE updateLeadStatus(ls, p.actor, p.lead, p.req, p.at).leads[p.lead]

\* lead.save() on a document that was loaded: Mongoose sends an update of
\* the modified paths only, $set (or $unset) for a path whose value is not
\* the value read, $push for the entries appended to an array
SavedPaths(stored, read, held) ==
    [f \in DOMAIN stored |->
        IF f = "previousAssignments"
        THEN stored[f] \o SubSeq(held[f], Len(read[f]) + 1, Len(held[f]))
        ELSE IF held[f] # read[f] THEN held[f] ELSE stored[f]]

\* a request that has passed its read
Read(op, actor, id, req) ==
    /\ requests' = requests + 1
    /\ inflight' = inflight \cup {Pending(op, actor, id, req, leads[id], now)}
    /\ last' = [ op |-> "read", actor |-> actor, lead |-> id, req |-> req,
                 code |-> 0, error |-> "", info |-> NoInfo ]
    /\ UNCHANGED <<leads, now, users, callLogs>>

\* update-lead up to its save(): a request the handler answers before it
\* saves is over at once
EmployeeUpdateLeadReads ==
    /\ Open
    /\ \E e \in Employees, id \in LeadRefs, req \in EmployeeRequests(now) :
          LET reply == updateLeadNotes(leads, e, id, req, now)
          IN  IF reply.code = 200
              THEN Read("update-lead", e, id, req)
              ELSE Handled("update-lead", e, id, req, reply)

\* update-lead-status up to its save()
ManagerUpdateLeadStatusReads ==
    /\ Open
    /\ \E m \in Managers, id \in LeadRefs, req \in ManagerRequests(now) :
          LET reply == updateLeadStatus(leads, m, id, req, now)
          IN  IF reply.code = 200
              THEN Read("update-lead-status", m, id, req)
              ELSE Handled("update-lead-status", m, id, req, reply)

\* the save() of a pending request, and its answer
LeadSaves ==
    \E p \in inflight :
        /\ p.op \in {"update-lead", "update-lead-status"}
        /\ leads' = [leads EXCEPT ![p.lead] = SavedPaths(leads[p.lead], p.read, HeldBy(p))]
        /\ inflight' = inflight \ {p}
        /\ last' = [ op |-> p.op, actor |-> p.actor, lead |-> p.lead, req |-> p.req,
                     code |-> 200, error |-> "", info |-> NoInfo ]
        /\ UNCHANGED <<now, requests, users, callLogs>>

\* one lead, new or Hot, of m1 and held by e1, and two requests
RaceDocs == {NewLead("m1", "e1", 0), StoredHot("m1", "e1", 0)}

InitRace ==
    /\ \E ls \in [{1} -> RaceDocs] : leads = Numbered(ls)
    /\ now = 0
    \* room for two requests
    /\ requests = MaxRequests - 2
    /\ last = NoOutcome
    /\ Quiet

NextRace ==
    \/ EmployeeUpdateLeadReads
    \/ ManagerUpdateLeadStatusReads
    \/ LeadSaves

SpecRace == InitRace /\ [][NextRace]_vars

----------------------------------------------------------------------------
(* POST /api/employee/call-log, and the two handlers that delete a lead *)

\* a request body of call-log
CallLogRequest(callStatus, simCardId) ==
    [EmptyBody EXCEPT !.callStatus = callStatus, !.simCardId = simCardId]

\* a CallLog document: its lead, its employee, callStartTime
CallLog(id, userId, t) == [lead |-> id, employee |-> userId, callStartTime |-> t]

\* addCallLog: the schema requires simCard, so CallLog.create rejects a log
\* without it and the catch answers 500
addCallLog(ls, userId, id, req) ==
    IF req.callStatus = Null
    THEN Reply(400, "leadId and callStatus required", ls)
    ELSE IF id \notin DOMAIN ls
    THEN Reply(404, "Lead not found", ls)
    ELSE IF ls[id].assignedTo = NoUser \/ ls[id].assignedTo # userId
    THEN Reply(403, "Not allowed to log call for this lead", ls)
    ELSE IF req.simCardId = Null
    THEN Reply(500, "Failed to save call log", ls)
    ELSE Reply(201, "", ls)

\* Lead.findByIdAndDelete(id)
WithoutLead(ls, id) == [i \in DOMAIN ls \ {id} |-> ls[i]]

\* DELETE /leads/:id of the admin router
adminDeleteLead(ls, id) ==
    IF id \notin DOMAIN ls
    THEN Reply(404, "Lead not found", ls)
    ELSE Reply(200, "", WithoutLead(ls, id))

\* deleteLead of the manager controller
deleteLead(ls, id) ==
    IF id \notin DOMAIN ls
    THEN Reply(404, "Lead not found", ls)
    ELSE Reply(200, "", WithoutLead(ls, id))

CallLogRequests ==
    {CallLogRequest(st, sim) : st \in {Null, Some("completed")}, sim \in {Null, Some("sim1")}}

AddCallLog ==
    /\ Open
    /\ \E e \in Employees, id \in LeadRefs, req \in CallLogRequests :
          LET reply == addCallLog(leads, e, id, req)
          IN  /\ requests' = requests + 1
              /\ callLogs' = IF reply.code = 201
                             THEN callLogs \cup {CallLog(id, e, now)}
                             ELSE callLogs
              /\ last' = Outcome("call-log", e, id, req, reply)
              /\ UNCHANGED <<leads, now, users, inflight>>

AdminDeleteLead ==
    /\ Open
    /\ \E caller \in Principals, id \in LeadRefs :
          Handled("admin-delete-lead", caller, id, NoRequest,
                  Gated({"admin"}, caller, leads, adminDeleteLead(leads, id)))

ManagerDeleteLead ==
    /\ Open
    /\ \E m \in Managers, id \in LeadRefs :
          Handled("delete-lead", m, id, NoRequest, deleteLead(leads, id))

\* leads of both managers, held by an employee or by nobody, and two requests
DeleteDocs == {NewLead("m1", "e1", 0), NewLead("m1", NoUser, 0), StoredHot("m2", "e3", 0)}

InitDelete ==
    /\ \E ls \in [LeadIds -> DeleteDocs] : leads = Numbered(ls)
    /\ now = 0
    \* room for two requests
    /\ requests = MaxRequests - 2
    /\ last = NoOutcome
    /\ Quiet

NextDelete ==
    \/ AddCallLog
    \/ AdminDeleteLead
    \/ ManagerDeleteLead

SpecDelete == InitDelete /\ [][NextDelete]_vars

----------------------------------------------------------------------------
(* The handlers that create a lead or write its phone *)

\* a request body that describes a lead
LeadBody(name, phone, region, status) ==
    [EmptyBody EXCEPT !.name = name, !.phone = phone, !.region = region,
                      !.status = status]

\* Lead.findOne({ phone }) finds a document
PhoneTaken(ls, phone) == \E id \in DOMAIN ls : ls[id].phone = phone

\* the _id of the next document of the collection
NextId(ls) ==
    IF DOMAIN ls = {} THEN 1
    ELSE (CHOOSE i \in DOMAIN ls : \A j \in DOMAIN ls : j <= i) + 1

\* lead.save() of a new document
Inserted(ls, doc) ==
    [id \in DOMAIN ls \cup {NextId(ls)} |-> IF id \in DOMAIN ls THEN ls[id] ELSE doc]

\* a status path that was assigned undefined
Unset == "unset"

\* new Lead({ name, phone, status: status || 'New', notes, assignedTo,
\* followUpDate, sellingPrice, lossReason, createdBy })
LeadOfBody(req, creator, t) ==
    [NewLead(creator, IF IsSome(req.assignedTo) THEN Val(req.assignedTo) ELSE NoUser, t)
        EXCEPT !.phone = Val(req.phone),
               !.status = IF IsSome(req.status) THEN Val(req.status) ELSE "New",
               !.notes = IF IsSome(req.note) THEN <<Val(req.note)>> ELSE <<>>,
               !.followUpDate = IF IsSome(req.followUpDate)
                                THEN Some(Val(req.followUpDate).t) ELSE Null,
               !.sellingPrice = IF TruthyNumber(req.sellingPrice)
                                THEN req.sellingPrice ELSE Null,
               !.lossReason = req.lossReason]

\* the body cannot be saved: a date that does not parse
Uncastable(req) == IsSome(req.followUpDate) /\ ~Val(req.followUpDate).valid

\* POST /leads of the admin router.  An absent region becomes 'Central',
\* which the enum of the schema does not hold, so save() rejects the lead.
adminCreateLead(ls, adminId, req, t) ==
    IF req.name = Null \/ req.phone = Null
    THEN Reply(400, "Name and phone are required", ls)
    ELSE IF PhoneTaken(ls, Val(req.phone))
    THEN Reply(400, "Lead with this phone number already exists", ls)
    ELSE IF req.region = Null \/ Uncastable(req)
    THEN Reply(500, "Server error", ls)
    ELSE Reply(201, "", Inserted(ls, LeadOfBody(req, adminId, t)))

\* POST /leads of the manager router: new Lead({ ...req.body, createdBy });
\* name and phone are required by the schema
managerCreateLead(ls, managerId, req, t) ==
    IF req.name = Null \/ req.phone = Null \/ Uncastable(req)
    THEN Reply(500, "Server error", ls)
    ELSE Reply(201, "", Inserted(ls,
             [LeadOfBody(req, managerId, t) EXCEPT !.sellingPrice = req.sellingPrice]))

\* PUT /leads/:id of the admin router: "Update fields"
AdminPutFields(doc, req) ==
    [doc EXCEPT
        !.phone = Val(req.phone),
        !.status = IF IsSome(req.status) THEN Val(req.status) ELSE Unset,
        !.notes = IF IsSome(req.note) THEN <<Val(req.note)>> ELSE <<>>,
        !.assignedTo = IF IsSome(req.assignedTo) THEN Val(req.assignedTo) ELSE NoUser,
        !.followUpDate = IF IsSome(req.followUpDate)
                         THEN Some(Val(req.followUpDate).t) ELSE Null,
        !.sellingPrice = IF TruthyNumber(req.sellingPrice) THEN req.sellingPrice ELSE Null,
        !.lossReason = req.lossReason]

adminPutLead(ls, id, req) ==
    IF id \notin DOMAIN ls
    THEN Reply(404, "Lead not found", ls)
    ELSE IF req.name = Null \/ req.phone = Null
    THEN Reply(400, "Name and phone are required", ls)
    ELSE IF Val(req.phone) # ls[id].phone /\ PhoneTaken(ls, Val(req.phone))
    THEN Reply(400, "Lead with this phone number already exists", ls)
    ELSE IF Uncastable(req)
    THEN Reply(500, "Server error", ls)
    ELSE Reply(200, "", [ls EXCEPT ![id] = AdminPutFields(ls[id], req)])

\* updateLead of the manager controller: findByIdAndUpdate with the fields
\* of the body that are truthy
updateLead(ls, id, req) ==
    IF id \notin DOMAIN ls
    THEN Reply(404, "Lead not found", ls)
    ELSE Reply(200, "", [ls EXCEPT ![id] =
             [@ EXCEPT
                 !.phone = IF IsSome(req.phone) THEN Val(req.phone) ELSE @,
                 !.status = IF IsSome(req.status) THEN Val(req.status) ELSE @,
                 !.notes = IF IsSome(req.note) THEN <<Val(req.note)>> ELSE @,
                 !.assignedTo = IF IsSome(req.assignedTo) THEN Val(req.assignedTo) ELSE @]])

\* bodies: with or without name, phone (of lead 1, of lead 2, a new one) and
\* region, with or without a status
LeadBodies ==
    {LeadBody(n, p, r, st) :
        n \in {Null, Some("lead")}, p \in {Null, Some(1), Some(2), Some(9)},
        r \in {Null, Some("Delhi")}, st \in {Null, Some("Interested")}}

AdminCreateLead ==
    /\ Open
    /\ \E caller \in Principals, req \in LeadBodies :
          Handled("admin-create-lead", caller, 0, req,
                  Gated({"admin"}, caller, leads,
                        adminCreateLead(leads, caller, req, now)))

ManagerCreateLead ==
    /\ Open
    /\ \E caller \in Principals, req \in LeadBodies :
          Handled("create-lead", caller, 0, req,
                  Gated({"manager"}, caller, leads,
                        managerCreateLead(leads, caller, req, now)))

AdminPutLead ==
    /\ Open
    /\ \E caller \in Principals, id \in LeadRefs, req \in LeadBodies :
          Handled("admin-put-lead", caller, id, req,
                  Gated({"admin"}, caller, leads, adminPutLead(leads, id, req)))

ManagerUpdateLead ==
    /\ Open
    /\ \E m \in Managers, id \in LeadRefs, req \in LeadBodies :
          Handled("update-lead-fields", m, id, req, updateLead(leads, id, req))

\* two leads with their own numbers, and one request
PhoneDocs == {NewLead("m1", "e1", 0), NewLead("m2", NoUser, 0)}

InitPhone ==
    /\ \E ls \in [LeadIds -> PhoneDocs] : leads = Numbered(ls)
    /\ now = 0
    /\ requests = MaxRequests - 1
    /\ last = NoOutcome
    /\ Quiet

NextPhone ==
    \/ AdminCreateLead
    \/ ManagerCreateLead
    \/ AdminPutLead
    \/ ManagerUpdateLead

SpecPhone == InitPhone /\ [][NextPhone]_vars

----------------------------------------------------------------------------
(* POST /leads/assign-manager of the admin router and POST /leads/bulk-update
   of the manager router *)

\* a request body of assign-manager
AssignManagerRequest(managerId, leadIds, clearAssignments) ==
    [EmptyBody EXCEPT !.managerId = managerId, !.leadIds = leadIds,
                      !.clearAssignments = clearAssignments]

\* "Bulk assign leads to a manager (make manager the owner/creator)"
assignManager(ls, managerId, leadIds, clearAssignments) ==
    IF managerId = Null \/ leadIds = {}
    THEN Reply(400, "managerId and leadIds[] are required", ls)
    ELSE IF Val(managerId) \notin users \/ RoleOf(Val(managerId)) # "manager"
    THEN Reply(400, "Invalid manager ID", ls)
    ELSE Reply(200, "",
             [id \in DOMAIN ls |->
                 IF id \notin leadIds THEN ls[id]
                 ELSE IF clearAssignments
                 THEN [ls[id] EXCEPT !.createdBy = Val(managerId), !.assignedTo = NoUser]
                 ELSE [ls[id] EXCEPT !.createdBy = Val(managerId)]])

\* a request body of bulk-update
BulkRequest(leadIds, updates) ==
    [EmptyBody EXCEPT !.leadIds = leadIds, !.updates = updates]

\* { $set: updates } on one document
SetUpdates(doc, updates) ==
    [doc EXCEPT
        !.status = IF IsSome(updates.status) THEN Val(updates.status) ELSE @,
        !.assignedTo = IF IsSome(updates.assignedTo) THEN Val(updates.assignedTo) ELSE @,
        !.createdBy = IF IsSome(updates.createdBy) THEN Val(updates.createdBy) ELSE @]

\* bulk-update: every id of leadIds must be a lead the caller has access to
bulkUpdate(ls, managerId, leadIds, updates) ==
    LET found == {id \in DOMAIN ls : id \in leadIds}
        authorizedLeads == {id \in found : ManagerHasAccess(ls[id], managerId)}
    IN  IF Cardinality(authorizedLeads) # Cardinality(leadIds)
        THEN Reply(403, "Not authorized to update some leads", ls)
        ELSE Reply(200, "",
                 [id \in DOMAIN ls |->
                     IF id \in leadIds THEN SetUpdates(ls[id], updates) ELSE ls[id]])

\* bodies of assign-manager: no manager, a manager, an employee
AssignManagerRequests ==
    {AssignManagerRequest(m, ids, clear) :
        m \in {Null, Some("m2"), Some("e1")},
        ids \in {{}, {1}, DOMAIN leads}, clear \in BOOLEAN}

\* bodies of bulk-update: one lead, all leads, or a lead and an unknown id,
\* with a status, an assignee or a creator to set
BulkRequests ==
    {BulkRequest(ids, updates) :
        ids \in {{1}, DOMAIN leads, {0, 1}},
        updates \in { [NoUpdates EXCEPT !.status = Some("Won")],
                      [NoUpdates EXCEPT !.assignedTo = Some("e3")],
                      [NoUpdates EXCEPT !.createdBy = Some("m2")] }}

AdminAssignManager ==
    /\ Open
    /\ \E caller \in Principals : \E req \in AssignManagerRequests :
          Handled("assign-manager", caller, 0, req,
                  Gated({"admin"}, caller, leads,
                        assignManager(leads, req.managerId, req.leadIds,
                                      req.clearAssignments)))

ManagerBulkUpdate ==
    /\ Open
    /\ \E caller \in Principals : \E req \in BulkRequests :
          Handled("bulk-update", caller, 0, req,
                  Gated({"manager"}, caller, leads,
                        bulkUpdate(leads, caller, req.leadIds, req.updates)))

\* leads of both managers, one of them Dead, and one request
OwnerDocs ==
    { NewLead("m1", NoUser, 0),
      StoredHot("m1", "e1", 0),
      StoredDead("m2", "e3", 0) }

InitOwner ==
    /\ \E ls \in [LeadIds -> OwnerDocs] : leads = Numbered(ls)
    /\ now = 0
    /\ requests = MaxRequests - 1
    /\ last = NoOutcome
    /\ Quiet

NextOwner ==
    \/ AdminAssignManager
    \/ ManagerBulkUpdate
    \/ ManagerUpdateLeadStatus
    \/ ManagerReactivate
    \/ AdminReactivate
    \/ DirectAssign
    \/ AutoDistribute
    \/ ReassignLeads

SpecOwner == InitOwner /\ [][NextOwner]_vars

----------------------------------------------------------------------------
(* DELETE /users/:id of the admin router, cut at the await between its look
   at the leads and User.findByIdAndDelete *)

\* a request that names a user
UserRequest(userId) == [EmptyBody EXCEPT !.userId = Some(userId)]

\* the handler up to "Check if user has assigned leads": the answer it gives
\* there, or 200 when it goes on to delete
deleteUserChecks(ls, id) ==
    IF id \notin users
    THEN Reply(404, "User not found", ls)
    ELSE IF \E l \in DOMAIN ls : ls[l].assignedTo = id
    THEN Reply(400, "Cannot delete user with assigned leads. Please reassign leads first.", ls)
    ELSE Reply(200, "", ls)

AdminDeleteUserChecks ==
    /\ Open
    /\ \E caller \in Principals, id \in Employees :
          LET req == UserRequest(id)
              reply == Gated({"admin"}, caller, leads, deleteUserChecks(leads, id))
          IN  IF reply.code = 200
              THEN /\ requests' = requests + 1
                   /\ inflight' = inflight \cup
                                    {Pending("delete-user", caller, 0, req, Null, now)}
                   /\ last' = [ op |-> "read", actor |-> caller, lead |-> 0, req |-> req,
                                code |-> 0, error |-> "", info |-> NoInfo ]
                   /\ UNCHANGED <<leads, now, users, callLogs>>
              ELSE Handled("delete-user", caller, 0, req, reply)

\* await User.findByIdAndDelete(id), and the answer
AdminDeleteUserDeletes ==
    \E p \in inflight :
        /\ p.op = "delete-user"
        /\ users' = users \ {Val(p.req.userId)}
        /\ inflight' = inflight \ {p}
        /\ last' = [ op |-> p.op, actor |-> p.actor, lead |-> 0, req |-> p.req,
                     code |-> 200, error |-> "", info |-> NoInfo ]
        /\ UNCHANGED <<leads, now, requests, callLogs>>

\* leads of both managers, unassigned or held, none of them by e1; the
\* deletion of a user and one assignment
UserDocs == {NewLead("m1", NoUser, 0), NewLead("m1", "e2", 0), NewLead("m2", "e3", 0)}

InitUsers ==
    /\ \E ls \in [LeadIds -> UserDocs] : leads = Numbered(ls)
    /\ now = 0
    \* room for two requests
    /\ requests = MaxRequests - 2
    /\ last = NoOutcome
    /\ Quiet

NextUsers ==
    \/ AdminDeleteUserChecks
    \/ AdminDeleteUserDeletes
    \/ DirectAssign
    \/ AutoDistribute
    \/ ManualMap

SpecUsers == InitUsers /\ [][NextUsers]_vars

----------------------------------------------------------------------------
(* Properties *)

\* the status-specific field groups a document has populated
PopulatedGroups(doc) ==
    {g \in {"followUp", "price", "loss", "dead"} :
        \/ g = "followUp" /\ IsSome(doc.followUpDate)
        \/ g = "price" /\ IsSome(doc.sellingPrice)
        \/ g = "loss" /\ IsSome(doc.lossReason)
        \/ g = "dead" /\ (IsSome(doc.deadLeadReason) \/ IsSome(doc.deadLeadDate))}

\* the group that goes with a status
GroupsOfStatus(status) ==
    IF status = "Follow-up" THEN {"followUp"}
    ELSE IF status = "Won" THEN {"price"}
    ELSE IF status = "Lost" THEN {"loss"}
    ELSE IF status = "Dead" THEN {"dead"}
    ELSE {}

StatusUpdateOps == {"update-lead", "update-lead-status"}
ReactivateOps == {"manager-reactivate", "admin-reactivate"}

\* the last request was a status transition that succeeded
TransitionDone ==
    /\ last.code = 200
    /\ \/ last.op \in StatusUpdateOps /\ IsSome(last.req.status)
       \/ last.op \in ReactivateOps

\* C1: after every successful status transition (employee update-lead,
\* manager update-lead-status, reactivate) the only status-specific field
\* group of the lead that is populated is the group of its status: every
\* other group is cleared.
C1_OnlyMatchingGroupPopulated ==
    TransitionDone =>
        PopulatedGroups(leads[last.lead]) \subseteq GroupsOfStatus(leads[last.lead].status)

\* C2: every successful transition to Hot or to Lost, by the employee or by
\* a manager, leaves reassignmentDate = now + 14 days and followUpDate
\* cleared.
C2_HotLostSetReassignmentDate ==
    ( /\ last.op \in StatusUpdateOps
      /\ last.code = 200
      /\ last.req.status \in {Some("Hot"), Some("Lost")} )
    => /\ leads[last.lead].reassignmentDate = Some(now + FourteenDays)
       /\ leads[last.lead].followUpDate = Null

\* the last request asked for Follow-up with a date before the start of today
PastFollowUpAsked ==
    /\ last.op \in StatusUpdateOps
    /\ last.req.status = Some("Follow-up")
    /\ IsSome(last.req.followUpDate)
    /\ Val(last.req.followUpDate).valid
    /\ Val(last.req.followUpDate).t < StartOfDay(now)

\* C3: a transition to Follow-up whose date lies before the start of the
\* current day is rejected with the past-date validation error, on the
\* employee path and on the manager path.
C3_PastFollowUpRejected ==
    PastFollowUpAsked =>
        /\ last.code = 400
        /\ last.error = "Follow-up date cannot be in the past"

\* C4: a reactivation that succeeds started from a Dead lead and leaves it
\* with status New, deadLeadReason, deadLeadDate and lastCallAttempt null and
\* callAttempts 0, whatever these were, and with every other field, assignedTo
\* and createdBy among them, as before; the admin's reactivation of a Dead
\* lead always succeeds.
C4_ReactivateResets ==
    [][ /\ ( last'.op \in ReactivateOps /\ last'.code = 200 ) =>
            LET id == last'.lead
            IN  /\ id \in DOMAIN leads
                /\ leads[id].status = "Dead"
                /\ leads'[id].status = "New"
                /\ leads'[id].deadLeadReason = Null
                /\ leads'[id].deadLeadDate = Null
                /\ leads'[id].callAttempts = 0
                /\ leads'[id].lastCallAttempt = Null
                /\ leads'[id].assignedTo = leads[id].assignedTo
                /\ leads'[id].createdBy = leads[id].createdBy
        /\ ( /\ last'.op = "admin-reactivate"
             /\ last'.lead \in DOMAIN leads
             /\ leads[last'.lead].status = "Dead" ) => last'.code = 200
      ]_vars

\* a manager has reactivated a lead that had call attempts and an assignee
C4_Witness ==
    /\ last.op = "manager-reactivate"
    /\ last.code = 200
    /\ leads[last.lead].status = "New"
    /\ leads[last.lead].callAttempts = 0
    /\ leads[last.lead].assignedTo = "e3"

\* C5: a reactivate request on a lead that is not Dead is answered 400 and
\* leaves the whole collection as it was.
C5_ReactivateOnlyFromDead ==
    [][ ( /\ last'.op \in ReactivateOps
          /\ last'.lead \in DOMAIN leads
          /\ leads[last'.lead].status # "Dead" )
        => /\ last'.code = 400
           /\ last'.error = "Lead is not dead"
           /\ leads' = leads
      ]_vars

\* a manager who did not create a Won lead asked to reactivate it
C5_Witness ==
    /\ last.op = "manager-reactivate"
    /\ last.actor = "m2"
    /\ last.code = 400
    /\ leads[last.lead].status = "Won"
    /\ leads[last.lead].createdBy = "m1"

\* C6: every lead reassign-leads selects as due is Hot or Lost (never Dead,
\* New, Won, Interested or Follow-up, whatever its reassignmentDate), has
\* reassignmentDate <= now, and is created by the caller or assigned to a
\* member of the caller's team.
C6_DueOnlyHotOrLost ==
    [][ last'.op = "reassign-leads" =>
            \A id \in last'.info.due :
                /\ id \in DOMAIN leads
                /\ leads[id].status \in {"Hot", "Lost"}
                /\ leads[id].status \notin {"Dead", "New", "Won", "Interested", "Follow-up"}
                /\ IsSome(leads[id].reassignmentDate)
                /\ Val(leads[id].reassignmentDate) <= now
                /\ \/ leads[id].createdBy = last'.actor
                   \/ leads[id].assignedTo \in TeamIds(last'.actor)
      ]_vars

\* reassign-leads found a lead due while a Dead lead created by the caller,
\* whose reassignmentDate has passed, was left out
C6_Witness ==
    /\ last.op = "reassign-leads"
    /\ last.info.due # {}
    /\ \E id \in DOMAIN leads :
          /\ id \notin last.info.due
          /\ leads[id].status = "Dead"
          /\ leads[id].createdBy = last.actor
          /\ IsSome(leads[id].reassignmentDate)
          /\ Val(leads[id].reassignmentDate) <= now

\* C7: every lead whose document reassign-leads changes gets an assignee of
\* the caller's team other than the previous one, exactly one more entry of
\* previousAssignments, which holds the outgoing assignee and the status,
\* a cleared reassignmentDate and the same status; the leads it reports as
\* reassigned are these.
C7_ReassignmentEffect ==
    [][ last'.op = "reassign-leads" =>
            /\ last'.info.reassigned = {id \in DOMAIN leads : leads'[id] # leads[id]}
            /\ \A id \in last'.info.reassigned :
                /\ leads'[id].assignedTo \in TeamIds(last'.actor)
                /\ leads'[id].assignedTo # leads[id].assignedTo
                /\ leads[id].assignedTo # NoUser
                /\ leads'[id].previousAssignments =
                       Append(leads[id].previousAssignments,
                              Assignment(leads[id].assignedTo, now, leads[id].status))
                /\ leads'[id].reassignmentDate = Null
                /\ leads'[id].status = leads[id].status
      ]_vars

\* the scenario of the specification: a Hot lead held by e1 went to e2
C7_Witness ==
    /\ last.op = "reassign-leads"
    /\ last.actor = "m1"
    /\ last.code = 200
    /\ \E id \in last.info.reassigned :
          /\ leads[id].assignedTo = "e2"
          /\ leads[id].status = "Hot"
          /\ leads[id].previousAssignments = <<Assignment("e1", now, "Hot")>>
          /\ leads[id].reassignmentDate = Null

\* C8: when the team has no employee other than a due lead's assignee, the
\* lead is not reassigned and the call still completes successfully.
C8_SkipIsNotAnError ==
    [][ last'.op = "reassign-leads" =>
            \A id \in DueForReassignment(leads, last'.actor, now) :
                ( /\ leads[id].assignedTo # NoUser
                  /\ AvailableEmployees(TeamOf(last'.actor), leads[id].assignedTo) = <<>> )
                => /\ last'.code = 200
                   /\ leads'[id] = leads[id]
      ]_vars

----------------------------------------------------------------------------
(* Properties of the distribution *)

\* the last request was an assign/auto that ran without cap / with a cap
UncappedRun(o) ==
    /\ o.op = "assign-auto"
    /\ o.code = 200
    /\ (o.req.perEmployee = Null \/ Val(o.req.perEmployee) <= 0)

CappedRun(o) ==
    /\ o.op = "assign-auto"
    /\ o.code = 200
    /\ IsSome(o.req.perEmployee)
    /\ Val(o.req.perEmployee) > 0

\* the entries of the assigned list that go to employee e
AssignedTo(o, e) == {i \in DOMAIN o.info.assigned : o.info.assigned[i].employeeId = e}

\* the ids the assigned and the skipped list name
AssignedIds(o) == {o.info.assigned[i].leadId : i \in DOMAIN o.info.assigned}
SkippedIds(o) == Range(o.info.skipped)

\* n div m rounded up
CeilDiv(n, m) == (n + m - 1) \div m

\* every id of the set is named once in the two lists together
ListedExactlyOnce(o, ids) ==
    /\ AssignedIds(o) \cup SkippedIds(o) = ids
    /\ Len(o.info.assigned) + Len(o.info.skipped) = Cardinality(ids)

C10_CapRespected ==
    [][ CappedRun(last') =>
            \A e \in Employees :
                /\ Cardinality(AssignedTo(last', e)) <= Val(last'.req.perEmployee)
                /\ Cardinality({id \in DOMAIN leads :
                                   /\ leads'[id].assignedTo = e
                                   /\ leads[id].assignedTo # e})
                       <= Val(last'.req.perEmployee)
      ]_vars

\* a run capped at 1 that filled the cap of both employees, passed over a
\* lead its target held, and left a lead over
C10_Witness ==
    /\ CappedRun(last)
    /\ Val(last.req.perEmployee) = 1
    /\ last.actor = "m1"
    /\ \A e \in TeamIds("m1") : Cardinality(AssignedTo(last, e)) = 1
    /\ Cardinality(last.req.leadIds) > Len(last.info.assigned) + Len(last.info.skipped)

----------------------------------------------------------------------------
(* Properties of the authorization of status updates *)

\* the rule "createdBy is the manager, or assignedTo is of the manager's team"
HasRights(doc, managerId) ==
    \/ doc.createdBy = managerId
    \/ doc.assignedTo \in TeamIds(managerId)

\* C13: a manager's update-lead-status on an existing lead is answered
\* Forbidden exactly when the lead is neither created by the manager nor held
\* by an employee of the manager's team; a lead created by someone else and
\* held by one of the manager's employees is accepted.
C13_ManagerAuthorizedByCreatorOrTeam ==
    [][ ( /\ last'.op = "update-lead-status"
          /\ last'.lead \in DOMAIN leads
          /\ (last'.code = 403 \/ IsSome(last'.req.status)) )
        => (last'.code = 403 <=> ~HasRights(leads[last'.lead], last'.actor))
      ]_vars

\* C15: an employee's update-lead on a lead not assigned to them is answered
\* Forbidden, with the same response whether the lead exists or not.
C15_EmployeeForbiddenWhateverExists ==
    [][ ( /\ last'.op = "update-lead"
          /\ \/ last'.lead \notin DOMAIN leads
             \/ leads[last'.lead].assignedTo # last'.actor )
        => /\ last'.code = 403
           /\ last'.error = "Not allowed to update this lead"
      ]_vars

----------------------------------------------------------------------------
(* Properties of the companion fields of a status *)

\* C17: a transition to Dead is accepted only with a deadLeadReason of the
\* enum in the body; the accepted transition stores that reason, sets
\* deadLeadDate to the time of the transition and leaves callAttempts as it
\* was.
C17_DeadNeedsReason ==
    [][ ( /\ last'.op \in StatusUpdateOps
          /\ last'.code = 200
          /\ last'.req.status = Some("Dead") )
        => /\ IsSome(last'.req.deadLeadReason)
           /\ Val(last'.req.deadLeadReason) \in DeadLeadReasons
           /\ leads'[last'.lead].deadLeadReason = last'.req.deadLeadReason
           /\ leads'[last'.lead].deadLeadDate = Some(now)
           /\ leads'[last'.lead].callAttempts = leads[last'.lead].callAttempts
      ]_vars

\* C18: a transition to Won is accepted only with a sellingPrice >= 0 in the
\* body and a transition to Lost only with a lossReason in the body, on the
\* employee path and on the manager path.
C18_WonLostNeedCompanion ==
    ( /\ last.op \in StatusUpdateOps
      /\ last.code = 200 )
    => /\ last.req.status = Some("Won") =>
              IsSome(last.req.sellingPrice) /\ Val(last.req.sellingPrice) >= 0
       /\ last.req.status = Some("Lost") => IsSome(last.req.lossReason)

----------------------------------------------------------------------------
(* Properties of the assignment routes *)

\* the four distribution strategies: direct assign, round-robin and capped
\* round-robin (both assign/auto), manual-map
DistributionOps == {"assign", "assign-auto", "manual-map"}

\* the leads whose assignee the step changes
Reassigned == {id \in DOMAIN leads : leads'[id].assignedTo # leads[id].assignedTo}

\* C11: whatever a distribution call of a manager changes, the new assignee
\* of every lead it changes is an employee of the caller's team.
C11_AssigneeInCallersTeam ==
    [][ last'.op \in DistributionOps =>
            \A id \in Reassigned : leads'[id].assignedTo \in TeamIds(last'.actor)
      ]_vars

\* m2 has assigned a lead that m1 created to e3 of its own team
C11_Witness ==
    /\ last.op = "assign"
    /\ last.code = 200
    /\ last.actor = "m2"
    /\ \E id \in DOMAIN leads :
          /\ id \in last.req.leadIds
          /\ leads[id].status = "New"
          /\ leads[id].createdBy = "m1"
          /\ leads[id].assignedTo = "e3"

\* C12: a distribution call of a manager changes the assignee only of leads
\* the manager has rights over: created by the manager, or held by an
\* employee of the manager's team.
C12_OnlyLeadsWithRights ==
    [][ last'.op \in DistributionOps =>
            \A id \in Reassigned : HasRights(leads[id], last'.actor)
      ]_vars

----------------------------------------------------------------------------
(* Properties of manual-map *)

\* the last request was a manual-map that ran
MapRun(o) == o.op = "manual-map" /\ o.code = 200

\* the entry names an employee of the caller's team
ValidEntry(a, caller) == a.employeeId \in TeamIds(caller)

\* the lead is one the caller may hand out
MayTake(doc, caller) ==
    \/ doc.createdBy = caller
    \/ doc.assignedTo = NoUser
    \/ doc.assignedTo \in TeamIds(caller)

\* the entries of a call that are valid and name the lead
Naming(o, id) ==
    {i \in DOMAIN o.req.assignments :
        /\ ValidEntry(o.req.assignments[i], o.actor)
        /\ id \in o.req.assignments[i].leadIds}

Last(S) == CHOOSE i \in S : \A j \in S : j <= i

\* every valid entry is applied and no other: a lead the caller may hand out
\* ends with the employee of the last valid entry that names it, every other
\* lead is as before
ValidEntriesApplied ==
    \A id \in DOMAIN leads :
        IF Naming(last', id) # {} /\ MayTake(leads[id], last'.actor)
        THEN leads'[id] = [leads[id] EXCEPT !.assignedTo =
                              last'.req.assignments[Last(Naming(last', id))].employeeId]
        ELSE leads'[id] = leads[id]

\* C14 as claimed: an entry for an employee outside the caller's team is
\* reported with an error and applies nothing; every valid entry of the same
\* call is applied and reported with its assigned and its skipped count.
C14_ManualMapClaimed ==
    [][ MapRun(last') =>
            /\ Len(last'.info.results) = Len(last'.req.assignments)
            /\ \A i \in DOMAIN last'.req.assignments :
                  LET a == last'.req.assignments[i]
                      r == last'.info.results[i]
                  IN  /\ r.employeeId = a.employeeId
                      /\ IF ValidEntry(a, last'.actor)
                         THEN r.error = Null /\ IsSome(r.assigned) /\ IsSome(r.skipped)
                         ELSE IsSome(r.error) /\ r.assigned = Null /\ r.skipped = Null
            /\ ValidEntriesApplied
      ]_vars

\* C14 amended: as claimed, except that a valid entry naming no lead is
\* reported with assigned 0 and no skipped count; a valid entry naming leads
\* is reported with both counts, which add up to the leads it names that
\* exist.
C14_ManualMapIsolated ==
    [][ MapRun(last') =>
            /\ Len(last'.info.results) = Len(last'.req.assignments)
            /\ \A i \in DOMAIN last'.req.assignments :
                  LET a == last'.req.assignments[i]
                      r == last'.info.results[i]
                  IN  /\ r.employeeId = a.employeeId
                      /\ IF ~ValidEntry(a, last'.actor)
                         THEN IsSome(r.error) /\ r.assigned = Null /\ r.skipped = Null
                         ELSE IF a.leadIds = {}
                         THEN r.error = Null /\ r.assigned = Some(0) /\ r.skipped = Null
                         ELSE /\ r.error = Null
                              /\ IsSome(r.assigned)
                              /\ IsSome(r.skipped)
                              /\ Val(r.assigned) + Val(r.skipped)
                                     = Cardinality(a.leadIds \cap DOMAIN leads)
            /\ ValidEntriesApplied
      ]_vars

\* m1 mapped leads to e3, who is not of its team, and to e1: the first entry
\* came back with the error, the second assigned a lead to e1
C14_Witness ==
    /\ MapRun(last)
    /\ last.actor = "m1"
    /\ Len(last.req.assignments) = 2
    /\ last.req.assignments[1].employeeId = "e3"
    /\ last.req.assignments[1].leadIds # {}
    /\ IsSome(last.info.results[1].error)
    /\ last.req.assignments[2].employeeId = "e1"
    /\ IsSome(last.info.results[2].assigned)
    /\ Val(last.info.results[2].assigned) > 0
    /\ \E id \in last.req.assignments[2].leadIds : leads[id].assignedTo = "e1"

----------------------------------------------------------------------------
(* Properties of who may assign, and of what an assignment leaves behind *)

\* C16: no request of an employee or of a caller without token changes the
\* assignee of any lead.
C16_OnlyManagersAssign ==
    [][ last'.actor \in Employees \cup {Anonymous} => Reassigned = {} ]_vars

\* C19: in every state a lead that has a reassignmentDate is Hot or Lost.
C19_ReassignmentDateOnlyHotLost ==
    \A id \in DOMAIN leads :
        IsSome(leads[id].reassignmentDate) => leads[id].status \in {"Hot", "Lost"}

\* C20: a request that changes the assignee of a lead from one employee to
\* another appends exactly one entry, the outgoing employee with the status
\* of that time, to previousAssignments; a request that leaves the assignee
\* as it is appends nothing; no request removes or alters an entry.
C20_OneEntryPerReassignment ==
    [][ \A id \in DOMAIN leads :
            IF /\ leads[id].assignedTo # NoUser
               /\ leads'[id].assignedTo # NoUser
               /\ leads'[id].assignedTo # leads[id].assignedTo
            THEN leads'[id].previousAssignments =
                     Append(leads[id].previousAssignments,
                            Assignment(leads[id].assignedTo, now, leads[id].status))
            ELSE leads'[id].previousAssignments = leads[id].previousAssignments
      ]_vars

----------------------------------------------------------------------------
(* Properties of the batch handlers under a failing item *)

\* C21: a failure on one lead of a batch does not abort the batch.  For
\* reassign-leads: whenever the caller has a team, the call answers 200, and
\* every due lead that has an assignee and an alternative employee is
\* reassigned, whether or not another due lead has no assignee.
C21_BatchSurvivesFailingLead ==
    [][ ( last'.op = "reassign-leads" /\ TeamOf(last'.actor) # <<>> ) =>
            /\ last'.code = 200
            /\ \A id \in DueForReassignment(leads, last'.actor, now) :
                  ( /\ leads[id].assignedTo # NoUser
                    /\ AvailableEmployees(TeamOf(last'.actor), leads[id].assignedTo) # <<>> )
                  => leads'[id].assignedTo # leads[id].assignedTo
      ]_vars

----------------------------------------------------------------------------
(* Properties of rejected and of concurrent status transitions *)

\* C22: a status-transition request (employee update-lead, manager
\* update-lead-status) that is not answered 200 leaves every stored lead,
\* the addressed one included, exactly as it was: status, notes, conditional
\* fields, assignedTo and previousAssignments.
C22_RejectedLeavesLeadUnchanged ==
    [][ ( last'.op \in StatusUpdateOps /\ last'.code # 200 ) => leads' = leads ]_vars

\* an employee asked for Follow-up with a past date on its own Hot lead, and
\* the lead is still Hot with its reassignmentDate and no follow-up date
C22_Witness ==
    /\ last.op = "update-lead"
    /\ last.code = 400
    /\ last.error = "Follow-up date cannot be in the past"
    /\ last.req.status = Some("Follow-up")
    /\ last.lead \in DOMAIN leads
    /\ leads[last.lead].assignedTo = last.actor
    /\ leads[last.lead].status = "Hot"
    /\ IsSome(leads[last.lead].reassignmentDate)
    /\ leads[last.lead].followUpDate = Null

----------------------------------------------------------------------------
(* Properties of the order of the round-robin *)

\* the leads an assign/auto call of manager m works on: the candidates the
\* manager is authorized for
AuthorizedCandidates(ls, m, leadIds) ==
    {id \in CandidateLeads(ls, m, leadIds) : MayTake(ls[id], m)}

\* lead a comes before lead b: unassigned first, then createdAt ascending,
\* and among equals the order in which Lead.find returned them
Precedes(ls, a, b) ==
    IF (ls[a].assignedTo = NoUser) # (ls[b].assignedTo = NoUser)
    THEN ls[a].assignedTo = NoUser
    ELSE IF ls[a].createdAt # ls[b].createdAt
    THEN ls[a].createdAt < ls[b].createdAt
    ELSE a < b

\* the 0-based position of a lead of S in that order
RankIn(ls, S, id) == Cardinality({j \in S : Precedes(ls, j, id)})

\* C27: an uncapped assign/auto takes the authorized candidates in the order
\* unassigned-first then createdAt ascending; the lead at position i
\* (0-based) has the target team[i mod |team|]; a lead its target already
\* holds is not written and is listed in skipped; every other one ends with
\* its target as assignee and is listed, in that order, in assigned; no other
\* field and no other lead changes.
C27_RoundRobinOrderAndTarget ==
    [][ UncappedRun(last') =>
            LET m == last'.actor
                S == AuthorizedCandidates(leads, m, last'.req.leadIds)
                team == TeamOf(m)
                Target(id) == team[(RankIn(leads, S, id) % Len(team)) + 1]
                assigned == last'.info.assigned
            IN  /\ \A id \in DOMAIN leads :
                      IF id \in S
                      THEN /\ leads'[id] = [leads[id] EXCEPT !.assignedTo = Target(id)]
                           /\ id \in SkippedIds(last') <=> leads[id].assignedTo = Target(id)
                           /\ id \in AssignedIds(last') <=> leads[id].assignedTo # Target(id)
                      ELSE /\ leads'[id] = leads[id]
                           /\ id \notin SkippedIds(last') \cup AssignedIds(last')
                /\ \A i \in DOMAIN assigned :
                      /\ assigned[i].employeeId = Target(assigned[i].leadId)
                      /\ \A j \in DOMAIN assigned :
                            i < j => RankIn(leads, S, assigned[i].leadId)
                                         < RankIn(leads, S, assigned[j].leadId)
      ]_vars

\* m1 distributed three leads: the sort put a lead with a higher id in front
\* of one with a lower id, the two went to e1 and to e2, and a third lead was
\* skipped because its target held it
C27_Witness ==
    /\ UncappedRun(last)
    /\ last.actor = "m1"
    /\ Len(last.info.assigned) = 2
    /\ last.info.assigned[1].leadId > last.info.assigned[2].leadId
    /\ last.info.assigned[1].employeeId = "e1"
    /\ last.info.assigned[2].employeeId = "e2"
    /\ Len(last.info.skipped) = 1
    /\ leads[last.info.skipped[1]].assignedTo = "e1"

----------------------------------------------------------------------------
(* Properties of what the employee's update leaves alone *)

\* C28: no update-lead request of an employee, accepted or rejected, changes
\* the assignee or the previousAssignments of any lead: the request is
\* answered 403 unless the lead is assigned to the caller, so the branch that
\* appends to the history is never taken.
C28_EmployeeKeepsAssignment ==
    [][ last'.op = "update-lead" =>
            /\ \A id \in DOMAIN leads :
                  /\ leads'[id].assignedTo = leads[id].assignedTo
                  /\ leads'[id].previousAssignments = leads[id].previousAssignments
            /\ ( /\ last'.lead \in DOMAIN leads
                 /\ leads[last'.lead].assignedTo # last'.actor ) => last'.code = 403
      ]_vars

\* e1 moved its own lead to Interested: the lead is still e1's and its
\* history is empty
C28_Witness ==
    /\ last.op = "update-lead"
    /\ last.code = 200
    /\ last.actor = "e1"
    /\ last.req.status = Some("Interested")
    /\ leads[last.lead].status = "Interested"
    /\ leads[last.lead].assignedTo = "e1"
    /\ leads[last.lead].previousAssignments = <<>>

----------------------------------------------------------------------------
(* Properties of a repeated reassign-leads *)

\* C29: a reassign-leads call that directly follows a reassign-leads call of
\* the same manager reassigns no lead and leaves the whole collection, every
\* assignedTo and every previousAssignments with it, as the first call left
\* it.
C29_RepeatedReassignChangesNothing ==
    [][ ( /\ last.op = "reassign-leads"
          /\ last'.op = "reassign-leads"
          /\ last'.actor = last.actor )
        => /\ last'.info.reassigned = {}
           /\ leads' = leads
      ]_vars

\* m1 called twice: the first call moved a Hot lead from e1 to e2 and cleared
\* its reassignmentDate, the second call found nothing to reassign
C29_Witness ==
    /\ requests = MaxRequests
    /\ last.op = "reassign-leads"
    /\ last.actor = "m1"
    /\ last.code = 200
    /\ last.info.reassigned = {}
    /\ \E id \in DOMAIN leads :
          /\ leads[id].assignedTo = "e2"
          /\ leads[id].previousAssignments = <<Assignment("e1", now, "Hot")>>
          /\ leads[id].reassignmentDate = Null

----------------------------------------------------------------------------
(* Properties of two status updates that interleave *)

\* C23: whenever a pending status update saves, the stored lead becomes the
\* document that request would have produced on its own from the lead it
\* read, whatever another request has saved between its read and its save:
\* the last writer wins with all its fields.
C23_LastWriteWins ==
    [][ \A p \in inflight :
            p \notin inflight' => leads'[p.lead] = HeldBy(p)
      ]_vars

----------------------------------------------------------------------------
(* Properties of the deletion of a lead *)

\* the lead has a call log
HasCallLog(id) == \E log \in callLogs : log.lead = id

\* C24: no request removes a lead that a call log refers to: a delete
\* request on such a lead (DELETE /leads/:id of the admin, deleteLead of the
\* manager controller) is refused and the lead stays in the collection.
C24_NoDeleteWithDependents ==
    [][ \A id \in DOMAIN leads :
            HasCallLog(id) =>
                /\ id \in DOMAIN leads'
                /\ ( /\ last'.op \in {"admin-delete-lead", "delete-lead"}
                     /\ last'.lead = id
                     /\ last'.actor \in Managers \cup {Admin} ) => last'.code # 200
      ]_vars

----------------------------------------------------------------------------
(* Properties of the phone of a lead *)

\* C25: in every state no two leads have the same phone, whichever requests
\* created leads or wrote a phone, and in whichever order.
C25_PhoneUnique ==
    \A a \in DOMAIN leads : \A b \in DOMAIN leads :
        a # b => leads[a].phone # leads[b].phone

----------------------------------------------------------------------------
(* Properties of the creator of a lead *)

\* C26: no request changes the createdBy of a lead that exists: a status
\* update, an assignment, a distribution, a reassignment, a reactivation,
\* the admin's assign-manager and the manager's bulk-update all leave it as
\* it was set at creation.
C26_CreatedByImmutable ==
    [][ \A id \in DOMAIN leads \cap DOMAIN leads' :
            leads'[id].createdBy = leads[id].createdBy
      ]_vars

----------------------------------------------------------------------------
(* Properties of the deletion of a user *)

\* C30: in every state the assignee of every lead is a user that exists: a
\* user is deleted only when no lead is assigned to it, also when the
\* deletion runs while a manager assigns leads to that user.
C30_NoAssigneeDeleted ==
    \A id \in DOMAIN leads :
        leads[id].assignedTo # NoUser => leads[id].assignedTo \in users

====
